---- MODULE Spec2Model ----
(***************************************************************************)
(* Model of scripts/feature_engineering.py: the technical-indicator        *)
(* pipeline calculate_technical_indicators -> get_trading_signals, with    *)
(* calculate_atr.                                                          *)
(*                                                                         *)
(* A DataFrame is a function from its column names to columns; a column is *)
(* a sequence indexed 1..n, so bar t of the source is index t + 1.         *)
(*                                                                         *)
(* Floating-point values are modelled exactly (no rounding):               *)
(*   NaN                      the missing / not-a-number value             *)
(*   Inf(neg)                 +inf / -inf                                  *)
(*   R(n, d)                  the rational n/d in lowest terms             *)
(*   Sc(neg, mag, e, q)       sign-magnitude number (+-mag) / q^e, mag a   *)
(*                            multi-limb natural; the sign is kept for a   *)
(*                            zero magnitude too, as IEEE-754 does         *)
(*   Ratio(num, den)          num/den of two multi-limb integers           *)
(*   Msd(mid, sd2, c)         mid + c * sqrt(sd2): a rolling mean plus a   *)
(*                            multiple of a rolling standard deviation,    *)
(*                            the deviation kept by its square             *)
(*   [k |-> "quot", num, den] the quotient of two Msd values (BB_Position) *)
(* The input columns Open/High/Low/Close/Volume hold integers and have no  *)
(* missing values (data model: every bar has a Close value).               *)
(***************************************************************************)
EXTENDS Integers, Sequences, FiniteSets, TLC

VARIABLES data, params, df, out, err, pc

vars == <<data, params, df, out, err, pc>>

----------------------------------------------------------------------------
(* Program constants.                                                      *)

DefaultWindow   == 14
DefaultEmaShort == 12
DefaultEmaLong  == 26
DefaultSignal   == 9
SMA50Window     == 50
SMA200Window    == 200
BBWindow        == 20
BBWidthFactor   == 2
MomentumLag     == 10
VolumeWindow    == 20
ATRWindow       == 14
SRWindow        == 20
RSIOversold     == 30
RSIOverbought   == 70

(* Bounds of the explored inputs.                                          *)
MaxTail    == 3
ShortWarm  == 3
LongWarm   == 17
MaxSigBars == 2

----------------------------------------------------------------------------
(* Exact arithmetic.                                                       *)

Max2(a, b) == IF a >= b THEN a ELSE b
Min2(a, b) == IF a <= b THEN a ELSE b
AbsI(a) == IF a < 0 THEN -a ELSE a
SignI(a) == IF a > 0 THEN 1 ELSE IF a < 0 THEN -1 ELSE 0

RECURSIVE Gcd(_, _)
Gcd(a, b) == IF b = 0 THEN a ELSE Gcd(b, a % b)

NaN == [k |-> "nan"]
Inf(neg) == [k |-> "inf", neg |-> neg]
IsNaN(v) == v.k = "nan"
IsDefined(v) == v.k # "nan"

(* The rational n/d, d # 0, in lowest terms with a positive denominator.   *)
R(n, d) ==
  LET g == Gcd(AbsI(n), AbsI(d))
      s == IF d < 0 THEN -1 ELSE 1
  IN [k |-> "rat", n |-> s * (n \div g), d |-> s * (d \div g)]
I(n) == [k |-> "rat", n |-> n, d |-> 1]

RAdd(a, b) == R(a.n * b.d + b.n * a.d, a.d * b.d)
RSub(a, b) == R(a.n * b.d - b.n * a.d, a.d * b.d)
RMul(a, b) == R(a.n * b.n, a.d * b.d)
RCmp(a, b) == SignI(a.n * b.d - b.n * a.d)

(* Multi-limb naturals: little-endian limbs in 0..Base-1, no leading zero  *)
(* limb, <<>> for zero.                                                    *)
Base == 10^4

RECURSIVE MagAdd(_, _, _)
MagAdd(a, b, c) ==
  IF a = <<>> /\ b = <<>> THEN (IF c = 0 THEN <<>> ELSE <<c>>)
  ELSE LET da == IF a = <<>> THEN 0 ELSE Head(a)
           db == IF b = <<>> THEN 0 ELSE Head(b)
           s  == da + db + c
       IN <<s % Base>> \o MagAdd(IF a = <<>> THEN a ELSE Tail(a),
                                 IF b = <<>> THEN b ELSE Tail(b), s \div Base)

RECURSIVE MagTrim(_)
MagTrim(a) ==
  IF a = <<>> THEN a
  ELSE IF a[Len(a)] = 0 THEN MagTrim(SubSeq(a, 1, Len(a) - 1)) ELSE a

(* a - b for a >= b, limb by limb with a borrow (not yet trimmed).         *)
RECURSIVE MagSubRaw(_, _, _)
MagSubRaw(a, b, br) ==
  IF a = <<>> THEN <<>>
  ELSE LET db == IF b = <<>> THEN 0 ELSE Head(b)
           s  == Head(a) - db - br
       IN <<s % Base>> \o MagSubRaw(Tail(a), IF b = <<>> THEN b ELSE Tail(b),
                                    IF s < 0 THEN 1 ELSE 0)
MagSub(a, b) == MagTrim(MagSubRaw(a, b, 0))

RECURSIVE MagCmpFrom(_, _, _)
MagCmpFrom(a, b, i) ==
  IF i = 0 THEN 0
  ELSE IF a[i] # b[i] THEN (IF a[i] < b[i] THEN -1 ELSE 1)
  ELSE MagCmpFrom(a, b, i - 1)
MagCmp(a, b) ==
  IF Len(a) # Len(b) THEN (IF Len(a) < Len(b) THEN -1 ELSE 1)
  ELSE MagCmpFrom(a, b, Len(a))

(* a * m + c for a small natural m.                                        *)
RECURSIVE MagMulSmall(_, _, _)
MagMulSmall(a, m, c) ==
  IF m = 0 THEN <<>>
  ELSE IF a = <<>> THEN (IF c = 0 THEN <<>>
                         ELSE <<c % Base>> \o MagMulSmall(a, m, c \div Base))
  ELSE LET s == Head(a) * m + c
       IN <<s % Base>> \o MagMulSmall(Tail(a), m, s \div Base)

RECURSIVE MagMulPow(_, _, _)
MagMulPow(a, q, j) == IF j = 0 THEN a ELSE MagMulPow(MagMulSmall(a, q, 0), q, j - 1)

MagOfNat(n) == MagMulSmall(<<1>>, n, 0)

(* Signed multi-limb integers [neg, mag]; neg is meaningful for mag = <<>> *)
(* as well (negative zero).                                                *)
Big(neg, mag) == [neg |-> neg, mag |-> mag]
BigOfInt(i) == Big(i < 0, MagOfNat(AbsI(i)))
BigNeg(a) == Big(~a.neg, a.mag)
BigIsZero(a) == a.mag = <<>>
(* IEEE-754 sign of a zero result: negative only if both operands are      *)
(* negative; an exact cancellation gives +0.                               *)
BigAdd(a, b) ==
  IF a.neg = b.neg THEN Big(a.neg, MagAdd(a.mag, b.mag, 0))
  ELSE LET c == MagCmp(a.mag, b.mag)
       IN IF c = 0 THEN Big(FALSE, <<>>)
          ELSE IF c > 0 THEN Big(a.neg, MagSub(a.mag, b.mag))
          ELSE Big(b.neg, MagSub(b.mag, a.mag))
BigSub(a, b) == BigAdd(a, BigNeg(b))
BigMulSmall(a, m) == Big(a.neg # (m < 0), MagMulSmall(a.mag, AbsI(m), 0))
(* Numeric comparison: -0 and +0 compare equal.                            *)
BigCmp(a, b) ==
  IF BigIsZero(a) /\ BigIsZero(b) THEN 0
  ELSE IF a.neg # b.neg THEN (IF a.neg THEN -1 ELSE 1)
  ELSE IF a.neg THEN MagCmp(b.mag, a.mag) ELSE MagCmp(a.mag, b.mag)
BigSign(a) == IF BigIsZero(a) THEN 0 ELSE IF a.neg THEN -1 ELSE 1

(* Scaled numbers (+-mag) / q^e; q is the common denominator of the       *)
(* smoothing factors of the column family the number belongs to.           *)
Sc(neg, mag, e, q) == [k |-> "sc", neg |-> neg, mag |-> mag, e |-> e, q |-> q]
ScOfInt(i, q) == Sc(i < 0, MagOfNat(AbsI(i)), 0, q)
ScBig(x, e) == Big(x.neg, MagMulPow(x.mag, x.q, e - x.e))
ScOfBig(b, e, q) == Sc(b.neg, b.mag, e, q)
ScNeg(x) == Sc(~x.neg, x.mag, x.e, x.q)
ScAdd(x, y) ==
  LET e == Max2(x.e, y.e) IN ScOfBig(BigAdd(ScBig(x, e), ScBig(y, e)), e, x.q)
ScSub(x, y) == ScAdd(x, ScNeg(y))
ScCmp(x, y) ==
  LET e == Max2(x.e, y.e) IN BigCmp(ScBig(x, e), ScBig(y, e))
(* x * p / q                                                               *)
ScMulFrac(x, p) == Sc(x.neg, MagMulSmall(x.mag, p, 0), x.e + 1, x.q)
ScIsZero(x) == x.mag = <<>>

(* num/den of two signed integers, den # 0, kept with a positive den.      *)
Ratio(num, den) ==
  IF den.neg THEN [k |-> "ratio", num |-> BigNeg(num), den |-> BigNeg(den)]
  ELSE [k |-> "ratio", num |-> num, den |-> den]
RatioOfInt(i) == Ratio(BigOfInt(i), BigOfInt(1))
(* sign of v - c for a ratio v and an integer c                            *)
RatioCmpInt(v, c) == BigCmp(v.num, BigMulSmall(v.den, c))

(* mid + c * sqrt(sd2), mid and sd2 rationals, sd2 >= 0.                   *)
Msd(mid, sd2, c) == [k |-> "msd", mid |-> mid, sd2 |-> sd2, c |-> c]
(* sign of r - (mid + c * sqrt(sd2)) for a rational r                      *)
RCmpMsd(r, m) ==
  LET u  == RSub(r, m.mid)
      su == SignI(u.n)
      sv == IF m.sd2.n = 0 THEN 0 ELSE SignI(m.c)
  IN IF sv = 0 THEN su
     ELSE IF su # sv THEN -sv
     ELSE su * RCmp(RMul(u, u), RMul(I(m.c * m.c), m.sd2))
MsdIsZero(m) == m.mid.n = 0 /\ (m.c = 0 \/ m.sd2.n = 0)

----------------------------------------------------------------------------
(* Series operations of the numeric library, on columns of integers.       *)

(* Running window sums, as the rolling aggregations keep them: each bar    *)
(* adds its value and drops the value that leaves the window.              *)
RollAdd(st, v) == [s |-> st.s + v, s2 |-> st.s2 + v * v, nobs |-> st.nobs + 1]
RollRemove(st, v) == [s |-> st.s - v, s2 |-> st.s2 - v * v, nobs |-> st.nobs - 1]
RollStep(x, w, i, prev) ==
  IF i > w THEN RollRemove(RollAdd(prev, x[i]), x[i - w]) ELSE RollAdd(prev, x[i])
RECURSIVE RollSums(_, _, _)
RollSums(x, w, acc) ==
  IF Len(acc) = Len(x) THEN acc
  ELSE RollSums(x, w, Append(acc,
         RollStep(x, w, Len(acc) + 1,
                  IF acc = <<>> THEN [s |-> 0, s2 |-> 0, nobs |-> 0]
                  ELSE acc[Len(acc)])))

MeanOf(st, minp) == IF st.nobs >= minp THEN R(st.s, st.nobs) ELSE NaN
VarOf(st, minp) ==
  IF st.nobs >= minp /\ st.nobs > 1
  THEN R(st.nobs * st.s2 - st.s * st.s, st.nobs * (st.nobs - 1))
  ELSE NaN
StdOfVar(v) == IF IsNaN(v) THEN NaN ELSE Msd(I(0), v, 1)
MeansOf(a, minp) == [i \in 1..Len(a) |-> MeanOf(a[i], minp)]
StdsOf(a, minp) == [i \in 1..Len(a) |-> StdOfVar(VarOf(a[i], minp))]

(* x.rolling(window=w, min_periods=minp).mean()                            *)
RollingMean(x, w, minp) == MeansOf(RollSums(x, w, <<>>), minp)

(* x.rolling(window=w).std(): the sample standard deviation (ddof=1)       *)
RollingStd(x, w) == StdsOf(RollSums(x, w, <<>>), w)

SetMax(S) == CHOOSE m \in S : \A y \in S : y <= m
SetMin(S) == CHOOSE m \in S : \A y \in S : m <= y
Window(x, w, i) == {x[j] : j \in (i - w + 1)..i}

(* x.rolling(window=w).max() and .min()                                    *)
RollingMax(x, w) ==
  [i \in 1..Len(x) |-> IF i >= w THEN I(SetMax(Window(x, w, i))) ELSE NaN]
RollingMin(x, w) ==
  [i \in 1..Len(x) |-> IF i >= w THEN I(SetMin(Window(x, w, i))) ELSE NaN]

(* x.diff(): NaN at the first bar.                                         *)
Diff(x) == [i \in 1..Len(x) |-> IF i = 1 THEN NaN ELSE I(x[i] - x[i - 1])]

(* x - x.shift(lag)                                                        *)
LagDiff(x, lag) ==
  [i \in 1..Len(x) |-> IF i <= lag THEN NaN ELSE I(x[i] - x[i - lag])]

(* a / b in floating point, for integers a, b                              *)
FDivInt(a, b) ==
  IF b = 0 THEN (IF a = 0 THEN NaN ELSE Inf(a < 0)) ELSE R(a, b)

(* x.pct_change() * 100                                                    *)
PctOf(r) == IF r.k = "rat" THEN RMul(RSub(r, I(1)), I(100)) ELSE r
PctChange100(x) ==
  [i \in 1..Len(x) |-> IF i = 1 THEN NaN ELSE PctOf(FDivInt(x[i], x[i - 1]))]

(* x.ewm(alpha=p/q, adjust=False).mean() on a column of scaled numbers     *)
(* without missing values: seeded with the first value; a value equal to   *)
(* the running mean leaves it as it is.                                    *)
EwmStep(w, cur, p) ==
  IF ScCmp(w, cur) = 0 THEN w
  ELSE ScAdd(ScMulFrac(w, cur.q - p), ScMulFrac(cur, p))
RECURSIVE EwmAcc(_, _, _)
EwmAcc(x, p, acc) ==
  IF Len(acc) = Len(x) THEN acc
  ELSE IF acc = <<>> THEN EwmAcc(x, p, <<x[1]>>)
  ELSE EwmAcc(x, p, Append(acc, EwmStep(acc[Len(acc)], x[Len(acc) + 1], p)))
Ewm(x, p) == EwmAcc(x, p, <<>>)

(* The running sum x.cumsum() of a column of integers.                     *)
RECURSIVE CumSumAcc(_, _)
CumSumAcc(x, acc) ==
  IF Len(acc) = Len(x) THEN acc
  ELSE CumSumAcc(x, Append(acc, (IF acc = <<>> THEN 0 ELSE acc[Len(acc)])
                                + x[Len(acc) + 1]))
CumSum(x) == CumSumAcc(x, <<>>)

----------------------------------------------------------------------------
(* calculate_technical_indicators                                          *)

AllColumns == {"Open", "High", "Low", "Close", "Volume"}
NBars(f) == IF DOMAIN f = {} THEN 0 ELSE Len(f[CHOOSE c \in DOMAIN f : TRUE])
Bars(f) == 1..NBars(f)

(* df[name] = column, for each name of cols: new columns are added and     *)
(* columns of the same name replaced. (c \o <<>> is the column c itself.)  *)
Put(f, cols) == [c \in DOMAIN cols |-> cols[c] \o <<>>] @@ f

(* Common denominator of the three MACD smoothing factors 2/(span+1), and  *)
(* the numerator of each over it.                                          *)
QMacd(p) == (p.ema_short + 1) * (p.ema_long + 1) * (p.signal + 1)
AlphaNum(span, p) == (2 * QMacd(p)) \div (span + 1)

(* SMAColumns with SMA_14 left undefined until its window is full.         *)
SMAColumnsStrict(f, p) ==
  Put(f, [SMA_14  |-> RollingMean(f.Close, p.window, p.window),
          SMA_50  |-> RollingMean(f.Close, SMA50Window, 1),
          SMA_200 |-> RollingMean(f.Close, SMA200Window, 1)])

(* 1. SMA_14, SMA_50, SMA_200: rolling means with min_periods=1            *)
SMAColumns(f, p) ==
  Put(f, [SMA_14  |-> RollingMean(f.Close, p.window, 1),
          SMA_50  |-> RollingMean(f.Close, SMA50Window, 1),
          SMA_200 |-> RollingMean(f.Close, SMA200Window, 1)])

(* 2. EMA_12, EMA_26: ewm(span, adjust=False).mean() of Close              *)
CloseScaled(f, q) == [i \in Bars(f) |-> ScOfInt(f.Close[i], q)]
EMAColumns(f, p) ==
  Put(f, [EMA_12 |-> Ewm(CloseScaled(f, QMacd(p)), AlphaNum(p.ema_short, p)),
          EMA_26 |-> Ewm(CloseScaled(f, QMacd(p)), AlphaNum(p.ema_long, p))])

(* 3. MACD, MACD_Signal, MACD_Histogram, each from the columns before it   *)
MACDLine(f) ==
  Put(f, [MACD |-> [i \in Bars(f) |-> ScSub(f.EMA_12[i], f.EMA_26[i])]])
MACDSignalLine(f, p) ==
  Put(f, [MACD_Signal |-> Ewm(f.MACD, AlphaNum(p.signal, p))])
MACDHistogram(f) ==
  Put(f, [MACD_Histogram |-> [i \in Bars(f) |-> ScSub(f.MACD[i], f.MACD_Signal[i])]])
MACDColumns(f, p) == MACDHistogram(MACDSignalLine(MACDLine(f), p))

(* gain = delta.where(delta > 0, 0): the rise of Close, +0 where there is  *)
(* none (also at the first bar, whose delta is NaN).                       *)
GainOf(delta, w) ==
  IF IsDefined(delta) /\ delta.n > 0 THEN ScOfInt(delta.n, w) ELSE Sc(FALSE, <<>>, 0, w)
Gain(close, w) == [i \in 1..Len(close) |-> GainOf(Diff(close)[i], w)]

(* LossOf without the negation.                                            *)
LossOfUnnegated(delta, w) ==
  IF IsDefined(delta) /\ delta.n < 0
  THEN ScOfInt(delta.n, w) ELSE Sc(FALSE, <<>>, 0, w)

(* loss = -delta.where(delta < 0, 0): the fall of Close as a positive      *)
(* number, and the negation of 0, that is -0, where there is none.         *)
LossOf(delta, w) ==
  IF IsDefined(delta) /\ delta.n < 0
  THEN ScNeg(ScOfInt(delta.n, w)) ELSE ScNeg(Sc(FALSE, <<>>, 0, w))
Loss(close, w) == [i \in 1..Len(close) |-> LossOf(Diff(close)[i], w)]

(* ewm(alpha=1/window, adjust=False).mean() of gain and of loss            *)
AvgGain(close, w) == Ewm(Gain(close, w), 1)
AvgLoss(close, w) == Ewm(Loss(close, w), 1)

(* rs = avg_gain / avg_loss, an IEEE-754 division: 0/0 is NaN, x/0 is an   *)
(* infinity with the sign of x times the sign of the zero.                 *)
RSValue(g, l) ==
  IF ScIsZero(l)
  THEN (IF ScIsZero(g) THEN NaN ELSE Inf(g.neg # l.neg))
  ELSE Ratio(ScBig(g, Max2(g.e, l.e)), ScBig(l, Max2(g.e, l.e)))

(* 100 - (100 / (1 + rs))                                                  *)
RSIValue(rs) ==
  IF rs.k = "nan" THEN NaN
  ELSE IF rs.k = "inf" THEN RatioOfInt(100)
  ELSE IF BigIsZero(BigAdd(rs.den, rs.num)) THEN Inf(TRUE)
  ELSE Ratio(BigMulSmall(rs.num, 100), BigAdd(rs.den, rs.num))

RSIOf(g, l) == [i \in 1..Len(g) |-> RSIValue(RSValue(g[i], l[i]))]

(* 4. RSI                                                                  *)
RSIColumn(f, p) ==
  Put(f, [RSI |-> RSIOf(AvgGain(f.Close, p.window), AvgLoss(f.Close, p.window))])

(* BB_Middle + c * bb_std                                                  *)
Band(mid, sd, c) ==
  IF IsNaN(mid) \/ IsNaN(sd) THEN NaN ELSE Msd(mid, sd.sd2, c * sd.c)
(* upper - lower of two bands of the same bar                              *)
BandDiff(u, l) ==
  IF IsNaN(u) \/ IsNaN(l) THEN NaN ELSE Msd(RSub(u.mid, l.mid), u.sd2, u.c - l.c)
(* (Close - lower) / (upper - lower)                                       *)
BBPosition(c, u, l) ==
  IF IsNaN(u) \/ IsNaN(l) THEN NaN
  ELSE IF MsdIsZero(BandDiff(u, l))
  THEN (IF MsdIsZero(BandDiff(Msd(I(c), l.sd2, 0), l)) THEN NaN
        ELSE Inf(RCmpMsd(I(c), l) < 0))
  ELSE [k |-> "quot", num |-> BandDiff(Msd(I(c), l.sd2, 0), l), den |-> BandDiff(u, l)]

(* BBMiddle with the partial-window policy of the moving averages.         *)
BBMiddleMinPeriodsOne(f) ==
  Put(f, [BB_Middle |-> RollingMean(f.Close, BBWindow, 1)])

(* 5. Bollinger Bands: strict 20-bar mean and standard deviation           *)
BBMiddle(f) == Put(f, [BB_Middle |-> RollingMean(f.Close, BBWindow, BBWindow)])
BBBands(f, sd) ==
  Put(f, [BB_Upper |-> [i \in Bars(f) |-> Band(f.BB_Middle[i], sd[i], BBWidthFactor)],
          BB_Lower |-> [i \in Bars(f) |-> Band(f.BB_Middle[i], sd[i], -BBWidthFactor)]])
BBWidthPosition(f) ==
  Put(f, [BB_Width    |-> [i \in Bars(f) |-> BandDiff(f.BB_Upper[i], f.BB_Lower[i])],
          BB_Position |-> [i \in Bars(f) |->
                             BBPosition(f.Close[i], f.BB_Upper[i], f.BB_Lower[i])]])
BollingerColumns(f, p) ==
  BBWidthPosition(BBBands(BBMiddle(f), RollingStd(f.Close, BBWindow) \o <<>>))

(* 6. Momentum_10, Momentum_14, Price_Change_Pct                           *)
MomentumColumns(f, p) ==
  Put(f, [Momentum_10      |-> LagDiff(f.Close, MomentumLag),
          Momentum_14      |-> LagDiff(f.Close, p.window),
          Price_Change_Pct |-> PctChange100(f.Close)])

(* Volume / Volume_SMA                                                     *)
VolumeRatio(v, sma) ==
  IF IsNaN(sma) THEN NaN
  ELSE IF sma.n = 0 THEN (IF v = 0 THEN NaN ELSE Inf(v < 0))
  ELSE RMul(I(v), R(sma.d, sma.n))

(* SignedVolume without np.sign.                                           *)
SignedVolumeUnsigned(delta, v) == IF IsNaN(delta) THEN 0 ELSE delta.n * v

(* np.sign(Close.diff()) * Volume, with fillna(0)                          *)
SignedVolume(delta, v) == IF IsNaN(delta) THEN 0 ELSE SignI(delta.n) * v
Integers1(x) == [i \in 1..Len(x) |-> I(x[i])]
(* (np.sign(Close.diff()) * Volume).fillna(0).cumsum()                     *)
OBV(close, volume) ==
  Integers1(CumSum([i \in 1..Len(close) |-> SignedVolume(Diff(close)[i], volume[i])]))

(* 7. Volume_SMA, Volume_Ratio, OBV, only if Volume exists                 *)
VolumeSMA(f) ==
  Put(f, [Volume_SMA |-> RollingMean(f.Volume, VolumeWindow, VolumeWindow)])
VolumeRatioOBV(f) ==
  Put(f, [Volume_Ratio |-> [i \in Bars(f) |-> VolumeRatio(f.Volume[i], f.Volume_SMA[i])],
          OBV          |-> OBV(f.Close, f.Volume)])
VolumeColumns(f, p) ==
  IF "Volume" \in DOMAIN f THEN VolumeRatioOBV(VolumeSMA(f)) ELSE f

(* max(High - Low, |High - Close.shift()|, |Low - Close.shift()|); the row *)
(* maximum skips the two ranges that are NaN at the first bar for want of  *)
(* a previous Close.                                                       *)
TrueRange(f, i) ==
  IF i = 1 THEN f.High[i] - f.Low[i]
  ELSE SetMax({f.High[i] - f.Low[i],
               AbsI(f.High[i] - f.Close[i - 1]),
               AbsI(f.Low[i] - f.Close[i - 1])})

(* calculate_atr(data, window=14): the strict rolling mean of true_range   *)
calculate_atr(f) ==
  RollingMean([i \in Bars(f) |-> TrueRange(f, i)] \o <<>>, ATRWindow, ATRWindow)

(* VolatilityColumns with Volatility under the High/Low condition too.     *)
VolatilityColumnsNeedHighLow(f, p) ==
  IF {"High", "Low", "Close"} \subseteq DOMAIN f
  THEN Put(f, [Volatility |-> RollingStd(f.Close, p.window),
               ATR        |-> calculate_atr(f)])
  ELSE Put(f, [Volatility |-> [i \in Bars(f) |-> NaN],
               ATR        |-> [i \in Bars(f) |-> NaN]])

(* 8. Volatility, ATR                                                      *)
VolatilityColumns(f, p) ==
  Put(f, [Volatility |-> RollingStd(f.Close, p.window),
          ATR        |-> IF {"High", "Low", "Close"} \subseteq DOMAIN f
                         THEN calculate_atr(f)
                         ELSE [i \in Bars(f) |-> NaN]])

(* 9. Resistance, Support, only if High and Low exist                      *)
SupportResistanceColumns(f, p) ==
  IF {"High", "Low"} \subseteq DOMAIN f
  THEN Put(f, [Resistance |-> RollingMax(f.High, SRWindow),
               Support    |-> RollingMin(f.Low, SRWindow)])
  ELSE f

(* 10. Price_Above_SMA50, EMA_Cross                                        *)
TrendColumns(f, p) ==
  Put(f, [Price_Above_SMA50 |-> [i \in Bars(f) |->
                                   IF RCmp(I(f.Close[i]), f.SMA_50[i]) > 0 THEN 1 ELSE 0],
          EMA_Cross         |-> [i \in Bars(f) |-> ScCmp(f.EMA_12[i], f.EMA_26[i])]])

(* The frame the function returns for a frame that has a Close column:     *)
(* the ten groups of statements in their order, each on the frame the      *)
(* previous one left.                                                      *)
Indicators(d, p) ==
  TrendColumns(
   SupportResistanceColumns(
    VolatilityColumns(
     VolumeColumns(
      MomentumColumns(
       BollingerColumns(
        RSIColumn(
         MACDColumns(
          EMAColumns(
           SMAColumns(d, p), p), p), p), p), p), p), p), p), p)

EmptyFrame == [c \in {} |-> <<>>]

(* calculate_technical_indicators without the validation: the first read  *)
(* of the Close column raises.                                             *)
CalculateWithoutValidation(d, p) ==
  IF "Close" \notin DOMAIN d
  THEN [raised |-> "KeyError", frame |-> EmptyFrame, input |-> d]
  ELSE [raised |-> "none", frame |-> Indicators(d, p), input |-> d]

(* Input validation, then the computation on a copy of the input: either *)
(* the exception raised and nothing returned, or the returned frame; input *)
(* is the caller's frame as the call leaves it.                            *)
calculate_technical_indicators(d, p) ==
  IF "Close" \notin DOMAIN d
  THEN [raised |-> "ValueError", frame |-> EmptyFrame, input |-> d]
  ELSE [raised |-> "none", frame |-> Indicators(d, p), input |-> d]

----------------------------------------------------------------------------
(* get_trading_signals                                                     *)

(* Series comparisons: False wherever an operand is NaN.                   *)
RatioLtInt(v, c) ==
  \/ v.k = "ratio" /\ RatioCmpInt(v, c) < 0
  \/ v.k = "inf" /\ v.neg
RatioGtInt(v, c) ==
  \/ v.k = "ratio" /\ RatioCmpInt(v, c) > 0
  \/ v.k = "inf" /\ ~v.neg
ScGt(x, y) == x.k = "sc" /\ y.k = "sc" /\ ScCmp(x, y) > 0
ScLt(x, y) == x.k = "sc" /\ y.k = "sc" /\ ScCmp(x, y) < 0
ScLe(x, y) == x.k = "sc" /\ y.k = "sc" /\ ScCmp(x, y) <= 0
ScGe(x, y) == x.k = "sc" /\ y.k = "sc" /\ ScCmp(x, y) >= 0
IntLtMsd(c, m) == m.k = "msd" /\ RCmpMsd(I(c), m) < 0
IntGtMsd(c, m) == m.k = "msd" /\ RCmpMsd(I(c), m) > 0

(* x.shift(1): NaN at the first bar                                        *)
Shift1(x) == [i \in 1..Len(x) |-> IF i = 1 THEN NaN ELSE x[i - 1]]

(* SetWhere as the assignment df[col] = mask.astype(int).                  *)
SetWhereAssign(f, mask, col) ==
  Put(f, [c \in {col} |-> [i \in Bars(f) |-> IF mask[i] THEN 1 ELSE 0]])

(* df.loc[mask, col] = 1                                                   *)
SetWhere(f, mask, col) ==
  Put(f, [c \in {col} |-> [i \in Bars(f) |-> IF mask[i] THEN 1 ELSE f[col][i]]])

RSIBuyMask(f)  == [i \in Bars(f) |-> RatioLtInt(f.RSI[i], RSIOversold)]
RSISellMask(f) == [i \in Bars(f) |-> RatioGtInt(f.RSI[i], RSIOverbought)]
macd_buy(f) ==
  [i \in Bars(f) |-> /\ ScGt(f.MACD[i], f.MACD_Signal[i])
                     /\ ScLe(Shift1(f.MACD)[i], Shift1(f.MACD_Signal)[i])]
macd_sell(f) ==
  [i \in Bars(f) |-> /\ ScLt(f.MACD[i], f.MACD_Signal[i])
                     /\ ScGe(Shift1(f.MACD)[i], Shift1(f.MACD_Signal)[i])]
(* BBBuyMask written as not (Close >= BB_Lower).                           *)
BBBuyMaskNegated(f) ==
  [i \in Bars(f) |-> ~(f.BB_Lower[i].k = "msd" /\ RCmpMsd(I(f.Close[i]), f.BB_Lower[i]) >= 0)]
BBBuyMask(f)  == [i \in Bars(f) |-> IntLtMsd(f.Close[i], f.BB_Lower[i])]
BBSellMask(f) == [i \in Bars(f) |-> IntGtMsd(f.Close[i], f.BB_Upper[i])]

(* BollingerRules with each write also clearing the opposite flag.         *)
BollingerRulesExclusive(f) ==
  Put(f, [Buy_Signal  |-> [i \in Bars(f) |->
                             IF BBSellMask(f)[i] THEN 0
                             ELSE IF BBBuyMask(f)[i] THEN 1 ELSE f.Buy_Signal[i]],
          Sell_Signal |-> [i \in Bars(f) |->
                             IF BBSellMask(f)[i] THEN 1
                             ELSE IF BBBuyMask(f)[i] THEN 0 ELSE f.Sell_Signal[i]]])

(* The three rule groups, each its buy write then its sell write.          *)
RSIRules(f) ==
  SetWhere(SetWhere(f, RSIBuyMask(f), "Buy_Signal"), RSISellMask(f), "Sell_Signal")
MACDRules(f) ==
  SetWhere(SetWhere(f, macd_buy(f), "Buy_Signal"), macd_sell(f), "Sell_Signal")
BollingerRules(f) ==
  SetWhere(SetWhere(f, BBBuyMask(f), "Buy_Signal"), BBSellMask(f), "Sell_Signal")

ApplyGroup(f, g) ==
  IF g = "RSI" THEN RSIRules(f)
  ELSE IF g = "MACD" THEN MACDRules(f)
  ELSE BollingerRules(f)

RECURSIVE ApplyRules(_, _)
ApplyRules(f, order) ==
  IF order = <<>> THEN f ELSE ApplyRules(ApplyGroup(f, Head(order)), Tail(order))

(* Both flags start at 0 on every bar.                                     *)
ZeroSignals(d) ==
  Put(d, [Buy_Signal  |-> [i \in Bars(d) |-> 0],
          Sell_Signal |-> [i \in Bars(d) |-> 0]])

RuleOrder == <<"RSI", "MACD", "BB">>

get_trading_signals(d) == ApplyRules(ZeroSignals(d), RuleOrder)

----------------------------------------------------------------------------
(* Inputs.                                                                 *)

DefaultParams ==
  [window |-> DefaultWindow, ema_short |-> DefaultEmaShort,
   ema_long |-> DefaultEmaLong, signal |-> DefaultSignal]
AltParams == [window |-> 3, ema_short |-> 2, ema_long |-> 4, signal |-> 2]
ParamChoices == {DefaultParams, AltParams}

(* The bars a price series is made of.                                     *)
BarShapes ==
  { [Open |-> 2, High |-> 3, Low |-> 1, Close |-> 2, Volume |-> 2],
    [Open |-> 2, High |-> 4, Low |-> 2, Close |-> 3, Volume |-> 3],
    [Open |-> 2, High |-> 2, Low |-> 1, Close |-> 1, Volume |-> 1] }

SeqsUpTo(S, n) == UNION {[1..m -> S] : m \in 1..n}

(* A price series: up to MaxTail arbitrary bars, opened by a flat stretch  *)
(* of k more bars equal to the first (k = 0, or one of two lengths).       *)
PriceSeries ==
  { [i \in 1..k |-> t[1]] \o t : k \in {0, ShortWarm, LongWarm},
                                 t \in SeqsUpTo(BarShapes, MaxTail) }

(* The table with the columns cols of the rows.                            *)
Project(rows, cols) == [c \in cols |-> [i \in 1..Len(rows) |-> rows[i][c]]]

(* The columns a caller's table may lack.                                  *)
MissingChoices ==
  { {}, {"Volume"}, {"High"}, {"Low"}, {"High", "Low"},
    {"Open", "High", "Low", "Volume"},
    {"Close"}, {"Close", "Open"}, {"Close", "High", "Low"} }

InputFrames ==
  { Project(rows, AllColumns \ m) : rows \in PriceSeries, m \in MissingChoices }

(* Indicator frames handed to get_trading_signals directly.                *)
SigBand(c) == Msd(I(2), R(1, 16), c)
SigBars ==
  { [RSI |-> r, MACD |-> m, MACD_Signal |-> ScOfInt(0, 1), Close |-> cb[1],
     BB_Lower |-> cb[2], BB_Upper |-> cb[3]] :
      r  \in {NaN, RatioOfInt(20), RatioOfInt(80)},
      m  \in {ScOfInt(-1, 1), ScOfInt(0, 1), ScOfInt(1, 1)},
      cb \in { <<1, SigBand(-2), SigBand(2)>>, <<3, SigBand(-2), SigBand(2)>>,
               <<2, NaN, NaN>> } }
SigColumns == {"RSI", "MACD", "MACD_Signal", "Close", "BB_Lower", "BB_Upper"}
IndicatorFrames ==
  { Project(rows, SigColumns) : rows \in SeqsUpTo(SigBars, MaxSigBars) }

----------------------------------------------------------------------------
(* The pipeline as a state machine.                                        *)

Init ==
  /\ data \in InputFrames
  /\ params \in ParamChoices
  /\ df = EmptyFrame
  /\ out = EmptyFrame
  /\ err = "none"
  /\ pc = "start"

(* calculate_technical_indicators(data, ...) raises: nothing is returned.  *)
CalculateRaises ==
  /\ pc = "start"
  /\ \E r \in {calculate_technical_indicators(data, params)} :
        /\ r.raised # "none"
        /\ err' = r.raised
        /\ df' = r.frame
        /\ data' = r.input
  /\ pc' = "failed"
  /\ UNCHANGED <<params, out>>

(* df = calculate_technical_indicators(data, ...) returns.                 *)
CalculateReturns ==
  /\ pc = "start"
  /\ \E r \in {calculate_technical_indicators(data, params)} :
        /\ r.raised = "none"
        /\ df' = r.frame
        /\ data' = r.input
  /\ pc' = "calculated"
  /\ UNCHANGED <<params, out, err>>

(* out = get_trading_signals(df)                                           *)
GetTradingSignals ==
  /\ pc = "calculated"
  /\ out' = get_trading_signals(df)
  /\ pc' = "signalled"
  /\ UNCHANGED <<data, params, df, err>>

Next == CalculateRaises \/ CalculateReturns \/ GetTradingSignals

Spec == Init /\ [][Next]_vars

(* get_trading_signals called on an indicator frame of the caller's.       *)
InitSignals ==
  /\ data = EmptyFrame
  /\ params = DefaultParams
  /\ df \in IndicatorFrames
  /\ out = EmptyFrame
  /\ err = "none"
  /\ pc = "calculated"

NextSignals == GetTradingSignals

SpecSignals == InitSignals /\ [][NextSignals]_vars

----------------------------------------------------------------------------
(* Properties of calculate_technical_indicators.                           *)

(* The call has returned a frame.                                          *)
Returned == pc \in {"calculated", "signalled"}

(* C1: a call on a table that has no Close column raises the missing-      *)
(* column error (ValueError), returns no output and leaves the caller's    *)
(* table as it was, whichever other columns the table has.                 *)
C1_MissingCloseRaises ==
  [][(pc = "start" /\ "Close" \notin DOMAIN data)
       => /\ pc' = "failed"
          /\ err' = "ValueError"
          /\ df' = EmptyFrame
          /\ out' = EmptyFrame
          /\ data' = data]_vars

C1_Witness ==
  /\ pc = "failed"
  /\ err = "ValueError"
  /\ DOMAIN data = {"Open", "High", "Low", "Volume"}
  /\ NBars(data) > 1

(* C2: the call does not raise, and at every bar where avg_loss is zero    *)
(* RSI is 100; so it is at every bar of a constant series.                 *)
C2_RSIHundredAtZeroLoss ==
  Returned =>
    /\ err = "none"
    /\ \E l \in {AvgLoss(df.Close, params.window)} :
         \A i \in Bars(df) :
           ScIsZero(l[i]) =>
             df.RSI[i].k = "ratio" /\ RatioCmpInt(df.RSI[i], 100) = 0

(* A series with no fall up to a bar after the first where Close has not   *)
(* moved yet (avg_gain and avg_loss both zero, RSI undefined) and a later  *)
(* bar where Close rose (avg_loss still zero, RSI 100).                    *)
C2_Witness ==
  /\ Returned
  /\ err = "none"
  /\ \E g \in {AvgGain(df.Close, params.window)},
        l \in {AvgLoss(df.Close, params.window)} :
       /\ \E i \in Bars(df) :
            /\ ScIsZero(l[i]) /\ ~ScIsZero(g[i])
            /\ df.RSI[i].k = "ratio" /\ RatioCmpInt(df.RSI[i], 100) = 0
       /\ \E i \in 2..NBars(df) :
            ScIsZero(l[i]) /\ ScIsZero(g[i]) /\ IsNaN(df.RSI[i])

RECURSIVE SumOfBars(_, _, _)
SumOfBars(x, a, b) == IF a > b THEN 0 ELSE x[a] + SumOfBars(x, a + 1, b)
MeanOfBars(x, a, b) == R(SumOfBars(x, a, b), b - a + 1)

(* C5: SMA_14, SMA_50 and SMA_200 are defined at every bar, each the mean  *)
(* of Close over the last min(t + 1, window) bars up to and including bar  *)
(* t (window = the window parameter, 50, 200): SMA_14 is Close itself at   *)
(* bar 0 and the mean of the first 6 bars at bar 5.                        *)
C5_SMAMinWindow ==
  Returned =>
    /\ \A i \in Bars(df) :
         /\ df.SMA_14[i] = MeanOfBars(df.Close, Max2(1, i - params.window + 1), i)
         /\ df.SMA_50[i] = MeanOfBars(df.Close, Max2(1, i - 50 + 1), i)
         /\ df.SMA_200[i] = MeanOfBars(df.Close, Max2(1, i - 200 + 1), i)
    /\ df.SMA_14[1] = I(df.Close[1])
    /\ (params.window = 14 /\ NBars(df) >= 6)
         => df.SMA_14[6] = MeanOfBars(df.Close, 1, 6)

C5_Witness ==
  /\ Returned
  /\ params.window = 14
  /\ NBars(df) > 14
  /\ df.Close[NBars(df)] # df.Close[1]
  /\ df.SMA_14[NBars(df)] = MeanOfBars(df.Close, NBars(df) - 13, NBars(df))
  /\ df.SMA_14[NBars(df)] # I(df.Close[1])
  /\ df.SMA_14[6] = I(df.Close[1])

(* C6: with the default parameters BB_Middle, BB_Upper, BB_Lower,          *)
(* Volume_SMA, Resistance and Support are undefined exactly at the bars    *)
(* t < 19, Volatility and ATR exactly at the bars t < 13, and the three    *)
(* moving averages are defined at every bar.                               *)
C6_WarmUp ==
  (Returned /\ params = DefaultParams) =>
    \A i \in Bars(df) :
      /\ \A c \in {"BB_Middle", "BB_Upper", "BB_Lower"} :
           IsNaN(df[c][i]) <=> (i - 1 < 19)
      /\ "Volume" \in DOMAIN data => (IsNaN(df.Volume_SMA[i]) <=> (i - 1 < 19))
      /\ {"High", "Low"} \subseteq DOMAIN data =>
           /\ IsNaN(df.Resistance[i]) <=> (i - 1 < 19)
           /\ IsNaN(df.Support[i]) <=> (i - 1 < 19)
           /\ IsNaN(df.ATR[i]) <=> (i - 1 < 13)
      /\ IsNaN(df.Volatility[i]) <=> (i - 1 < 13)
      /\ \A c \in {"SMA_14", "SMA_50", "SMA_200"} : IsDefined(df[c][i])

C6_Witness ==
  /\ Returned
  /\ params = DefaultParams
  /\ AllColumns \subseteq DOMAIN data
  /\ NBars(df) >= 20
  /\ IsNaN(df.BB_Upper[19]) /\ IsDefined(df.BB_Upper[20])
  /\ IsNaN(df.Support[19]) /\ IsDefined(df.Support[20])
  /\ IsNaN(df.ATR[13]) /\ IsDefined(df.ATR[14])
  /\ IsNaN(df.Volatility[13]) /\ IsDefined(df.Volatility[14])

(* C7: where Volume is present, OBV is 0 at bar 0 and at each later bar    *)
(* the previous OBV plus Volume if Close rose, minus Volume if Close fell, *)
(* and unchanged if Close did not move.                                    *)
C7_OBVRunningSum ==
  (Returned /\ "Volume" \in DOMAIN data) =>
    /\ df.OBV[1] = I(0)
    /\ \A i \in 2..NBars(df) :
         df.OBV[i] =
           I(df.OBV[i - 1].n
             + (IF df.Close[i] > df.Close[i - 1] THEN df.Volume[i]
                ELSE IF df.Close[i] < df.Close[i - 1] THEN -df.Volume[i]
                ELSE 0))

C7_Witness ==
  /\ Returned
  /\ "Volume" \in DOMAIN data
  /\ \E i, j, k \in 2..NBars(df) :
       /\ df.Close[i] > df.Close[i - 1] + 1 /\ df.OBV[i].n = df.OBV[i - 1].n + df.Volume[i]
       /\ df.Close[j] < df.Close[j - 1] /\ df.OBV[j].n = df.OBV[j - 1].n - df.Volume[j]
       /\ df.Close[k] = df.Close[k - 1] /\ df.OBV[k] = df.OBV[k - 1]

(* C8: only a missing Close aborts the call. On a table that has Close but *)
(* lacks High or Low the call returns, ATR is undefined at every bar, the  *)
(* Resistance and Support columns are not produced, and every other        *)
(* column has the values it has when High and Low are present.             *)
C8_MissingHighLow ==
  /\ pc = "failed" => "Close" \notin DOMAIN data
  /\ (Returned /\ ~({"High", "Low"} \subseteq DOMAIN data)) =>
       /\ err = "none"
       /\ \A i \in Bars(df) : IsNaN(df.ATR[i])
       /\ "Resistance" \notin DOMAIN df
       /\ "Support" \notin DOMAIN df
       /\ \E full \in {Indicators(data @@ [High |-> [i \in Bars(data) |-> data.Close[i] + 1],
                                           Low  |-> [i \in Bars(data) |-> data.Close[i] - 1]],
                                  params)} :
            /\ DOMAIN full = DOMAIN df \cup {"High", "Low", "Resistance", "Support"}
            /\ \A c \in DOMAIN df \ {"High", "Low", "ATR"} : df[c] = full[c]
            /\ \A i \in Bars(df) : i >= 14 => IsDefined(full.ATR[i])

C8_Witness ==
  /\ Returned
  /\ DOMAIN data = {"Open", "Low", "Close", "Volume"}
  /\ NBars(df) >= 20
  /\ df.Close[NBars(df)] # df.Close[1]
  /\ IsNaN(df.ATR[20])
  /\ IsDefined(df.Volatility[20])
  /\ IsDefined(df.BB_Upper[20])
  /\ "Resistance" \notin DOMAIN df

----------------------------------------------------------------------------
(* Properties of get_trading_signals.                                      *)

(* C10: on the frame calculate_technical_indicators returns, both flags    *)
(* are 0 at bar 0; a rule whose indicator is undefined does not fire; at   *)
(* the bars t < 19 the Bollinger rule sets no flag, and the flags there    *)
(* are those of the RSI and MACD rules alone.                              *)
C10_WarmUpSignals ==
  pc = "signalled" =>
    \E rb \in {RSIBuyMask(df)}, rs \in {RSISellMask(df)},
       mb \in {macd_buy(df)}, ms \in {macd_sell(df)},
       bb \in {BBBuyMask(df)}, bs \in {BBSellMask(df)} :
      /\ out.Buy_Signal[1] = 0
      /\ out.Sell_Signal[1] = 0
      /\ \A i \in Bars(df) :
           /\ IsNaN(df.RSI[i]) => ~rb[i] /\ ~rs[i]
           /\ IsNaN(df.BB_Lower[i]) => ~bb[i]
           /\ IsNaN(df.BB_Upper[i]) => ~bs[i]
           /\ i - 1 < 19 =>
                /\ ~bb[i] /\ ~bs[i]
                /\ out.Buy_Signal[i] = (IF rb[i] \/ mb[i] THEN 1 ELSE 0)
                /\ out.Sell_Signal[i] = (IF rs[i] \/ ms[i] THEN 1 ELSE 0)

C10_Witness ==
  /\ pc = "signalled"
  /\ NBars(df) >= 20
  /\ out.Buy_Signal[1] = 0 /\ out.Sell_Signal[1] = 0
  /\ \E i \in 2..19 : out.Sell_Signal[i] = 1
  /\ \E i \in 20..NBars(df) :
       BBSellMask(df)[i] /\ ~RSISellMask(df)[i] /\ ~macd_sell(df)[i]
                         /\ out.Sell_Signal[i] = 1

(* C3: Buy_Signal and Sell_Signal are 0 or 1 at every bar; each is 1       *)
(* exactly where one of its own rules fired, whatever the rules of the     *)
(* other flag did, and no rule puts a flag back to 0: a bar with RSI < 30  *)
(* and Close > BB_Upper, or with RSI > 70 and Close < BB_Lower, ends with  *)
(* both flags 1.                                                           *)
C3_FlagsIndependent ==
  pc = "signalled" =>
    \E rb \in {RSIBuyMask(df)}, rs \in {RSISellMask(df)},
       mb \in {macd_buy(df)}, ms \in {macd_sell(df)},
       bb \in {BBBuyMask(df)}, bs \in {BBSellMask(df)} :
      \A i \in Bars(df) :
        /\ out.Buy_Signal[i] \in {0, 1}
        /\ out.Sell_Signal[i] \in {0, 1}
        /\ out.Buy_Signal[i] = 1 <=> (rb[i] \/ mb[i] \/ bb[i])
        /\ out.Sell_Signal[i] = 1 <=> (rs[i] \/ ms[i] \/ bs[i])
        /\ (rb[i] /\ bs[i]) => (out.Buy_Signal[i] = 1 /\ out.Sell_Signal[i] = 1)
        /\ (rs[i] /\ bb[i]) => (out.Buy_Signal[i] = 1 /\ out.Sell_Signal[i] = 1)

C3_Witness ==
  /\ pc = "signalled"
  /\ \E i \in Bars(df) :
       /\ RSIBuyMask(df)[i] /\ BBSellMask(df)[i]
       /\ out.Buy_Signal[i] = 1 /\ out.Sell_Signal[i] = 1
  /\ \E i \in Bars(df) :
       /\ RSISellMask(df)[i] /\ BBBuyMask(df)[i]
       /\ out.Buy_Signal[i] = 1 /\ out.Sell_Signal[i] = 1

(* The orders in which the three rule groups can be applied.               *)
RuleOrders ==
  { o \in [1..3 -> {"RSI", "MACD", "BB"}] : \A i, j \in 1..3 : o[i] = o[j] => i = j }

(* The bars at which two rule groups write the column col.                 *)
Contended(f, col) ==
  { i \in Bars(f) :
      \E m \in IF col = "Buy_Signal"
               THEN { <<RSIBuyMask(f), macd_buy(f)>>, <<RSIBuyMask(f), BBBuyMask(f)>>,
                      <<macd_buy(f), BBBuyMask(f)>> }
               ELSE { <<RSISellMask(f), macd_sell(f)>>, <<RSISellMask(f), BBSellMask(f)>>,
                      <<macd_sell(f), BBSellMask(f)>> } :
        m[1][i] /\ m[2][i] }

(* C4 as amended: the order of the rule groups is not significant. Every   *)
(* rule only writes 1 where its condition holds, so a later rule never     *)
(* changes what an earlier one wrote: each flag is the boolean OR of its   *)
(* rules, and the rule groups applied in any order give the same output.   *)
C4_OrderIrrelevant ==
  pc = "signalled" =>
    /\ \A o \in RuleOrders : ApplyRules(ZeroSignals(df), o) = out
    /\ \A i \in Bars(df) :
         /\ out.Buy_Signal[i] =
              (IF RSIBuyMask(df)[i] \/ macd_buy(df)[i] \/ BBBuyMask(df)[i] THEN 1 ELSE 0)
         /\ out.Sell_Signal[i] =
              (IF RSISellMask(df)[i] \/ macd_sell(df)[i] \/ BBSellMask(df)[i] THEN 1 ELSE 0)

(* C4 as stated: the order is significant. Where a later rule writes a     *)
(* flag an earlier rule wrote, the rules applied in another order give a   *)
(* different output.                                                       *)
C4_Original ==
  (pc = "signalled" /\ Contended(df, "Buy_Signal") \cup Contended(df, "Sell_Signal") # {})
    => \E o \in RuleOrders : ApplyRules(ZeroSignals(df), o) # out

C4_Witness ==
  /\ pc = "signalled"
  /\ Contended(df, "Buy_Signal") # {}
  /\ Contended(df, "Sell_Signal") # {}
  /\ \A o \in RuleOrders : ApplyRules(ZeroSignals(df), o) = out
  /\ \E i \in Contended(df, "Buy_Signal") : out.Buy_Signal[i] = 1

====
